---- MODULE Spec2Model ----
(***************************************************************************)
(* Model of the label fitting code of LegendGephi.py: the text measurement *)
(* model (estimate_text_width, wrap_text_to_fit_diameter,                  *)
(* can_fit_with_wrapping), the font size solver                            *)
(* (calculate_optimal_font_size) and the per-document pass                 *)
(* (adjust_node_labels_in_tree).                                           *)
(*                                                                         *)
(* Numbers.  Font sizes and diameters are Python floats.  They are         *)
(* modelled exactly, as integers counting 1/Scale of a point; Scale is a   *)
(* power of two large enough that every midpoint (left + right) / 2 the    *)
(* solver computes on the modelled inputs is a whole number of units       *)
(* (MidExact states it).  Widths and heights carry the factors 0.6, 0.3,   *)
(* 0.95 and 1.2 as hundredths, so a width is an integer counting           *)
(* 1/(100*Scale) of a point and a comparison with a diameter d is a        *)
(* comparison with 100*d.  Rounding of binary floating point is not        *)
(* modelled.                                                               *)
(*                                                                         *)
(* Texts are sequences of one-character strings over Chars.                *)
(***************************************************************************)
EXTENDS Integers, Sequences, FiniteSets, TLC

VARIABLES
    fitCall,            \* one call of wrap_text_to_fit_diameter / can_fit_with_wrapping
    solve,              \* one call of calculate_optimal_font_size
    pc,                 \* position inside adjust_node_labels_in_tree
    has_groups,         \* both <g id="nodes"> and <g id="node-labels"> exist
    circles,            \* the <circle> elements: class and radius
    auto_font_size,     \* argument
    min_font_size,      \* argument (None or a size)
    max_font_size,      \* argument (None or a size)
    node_map,           \* class -> diameter
    labels0,            \* the <text> elements as read
    labels,             \* the <text> elements, updated in place
    max_node_diameter,
    actual_max_font_size,
    achievable_font_size,
    idx,                \* index of the next <text> element of the main loop
    computed,           \* per label: what the main loop computed for it
    modified_count,
    ret                 \* the value returned

vars == <<fitCall, solve, pc, has_groups, circles, auto_font_size, min_font_size,
          max_font_size, node_map, labels0, labels, max_node_diameter,
          actual_max_font_size, achievable_font_size, idx, computed,
          modified_count, ret>>

docVars == <<pc, has_groups, circles, auto_font_size, min_font_size,
          max_font_size, node_map, labels0, labels, max_node_diameter,
          actual_max_font_size, achievable_font_size, idx, computed,
          modified_count, ret>>

----------------------------------------------------------------------------
(* Units and program constants *)

Scale == 2^10

None == -1

char_width_factor == 60

space_width_factor == 30

available_factor == 95

line_height_factor == 120

Hundred == 100

SearchStep == Scale \div 2

DefaultMinFontSize == 4 * Scale

DefaultMaxFontSize == 100 * Scale

DefaultFontSizeAttr == 12 * Scale

Pt(n) == n * Scale

HalfPt(n) == n * SearchStep

----------------------------------------------------------------------------
(* Strings *)

Chars == {"a", "A", " "}

Upper(c) == IF c = "a" THEN "A" ELSE c

Lower(c) == IF c = "A" THEN "a" ELSE c

RECURSIVE SplitFrom(_, _, _, _)
SplitFrom(text, i, cur, acc) ==
    IF i > Len(text)
    THEN IF cur = <<>> THEN acc ELSE Append(acc, cur)
    ELSE IF text[i] = " "
         THEN SplitFrom(text, i + 1, <<>>, IF cur = <<>> THEN acc ELSE Append(acc, cur))
         ELSE SplitFrom(text, i + 1, Append(cur, text[i]), acc)

\* str.split(): the maximal runs of non-whitespace characters, in order
split(text) == SplitFrom(text, 1, <<>>, <<>>)

RECURSIVE join(_)
\* ' '.join(parts)
join(parts) ==
    IF parts = <<>> THEN <<>>
    ELSE IF Len(parts) = 1 THEN parts[1]
    ELSE parts[1] \o <<" ">> \o join(Tail(parts))

RECURSIVE lstrip(_)
lstrip(text) ==
    IF text # <<>> /\ text[1] = " " THEN lstrip(Tail(text)) ELSE text

RECURSIVE rstrip(_)
rstrip(text) ==
    IF text # <<>> /\ text[Len(text)] = " "
    THEN rstrip(SubSeq(text, 1, Len(text) - 1)) ELSE text

\* str.strip()
strip(text) == rstrip(lstrip(text))

\* str.capitalize(): first character upper case, the others lower case
capitalize(text) ==
    [i \in 1..Len(text) |-> IF i = 1 THEN Upper(text[i]) ELSE Lower(text[i])]

----------------------------------------------------------------------------
(* Text measurement model *)

\* len(text) * font_size * 0.6, in 1/(100*Scale) pt
estimate_text_width(text, font_size) == Len(text) * font_size * char_width_factor

\* the for loop of wrap_text_to_fit_diameter, followed by the last line
RECURSIVE WrapWords_dropLast(_, _, _, _, _, _, _)
WrapWords_dropLast(words, i, lines, current_line, current_width, font_size, node_diameter) ==
    IF i > Len(words)
    THEN lines
    ELSE LET word == words[i]
             word_width == estimate_text_width(word, font_size)
             space_width == font_size * space_width_factor
         IN  IF current_line # <<>>
                /\ current_width + space_width + word_width > Hundred * node_diameter
             THEN WrapWords_dropLast(words, i + 1, Append(lines, join(current_line)),
                            <<word>>, word_width, font_size, node_diameter)
             ELSE WrapWords_dropLast(words, i + 1, lines, Append(current_line, word),
                            (IF current_line # <<>> THEN current_width + space_width
                                                    ELSE current_width) + word_width,
                            font_size, node_diameter)

RECURSIVE WrapWords(_, _, _, _, _, _, _)
WrapWords(words, i, lines, current_line, current_width, font_size, node_diameter) ==
    IF i > Len(words)
    THEN IF current_line # <<>> THEN Append(lines, join(current_line)) ELSE lines
    ELSE LET word == words[i]
             word_width == estimate_text_width(word, font_size)
             space_width == font_size * space_width_factor
         IN  IF current_line # <<>>
                /\ current_width + space_width + word_width > Hundred * node_diameter
             THEN WrapWords(words, i + 1, Append(lines, join(current_line)),
                            <<word>>, word_width, font_size, node_diameter)
             ELSE WrapWords(words, i + 1, lines, Append(current_line, word),
                            (IF current_line # <<>> THEN current_width + space_width
                                                    ELSE current_width) + word_width,
                            font_size, node_diameter)

wrap_text_to_fit_diameter(text, font_size, node_diameter) ==
    IF estimate_text_width(text, font_size) <= Hundred * node_diameter
    THEN <<text>>
    ELSE LET words == split(text)
         IN  IF words = <<>> THEN <<text>>
             ELSE WrapWords(words, 1, <<>>, <<>>, 0, font_size, node_diameter)

\* total_height = (len(lines) - 1) * line_height + font_size, in 1/(100*Scale) pt
total_height(lines, font_size) ==
    (Len(lines) - 1) * font_size * line_height_factor + Hundred * font_size

\* the two checks of can_fit_with_wrapping on a given line list
LinesFit(lines, font_size, node_diameter) ==
    /\ \A k \in 1..Len(lines) :
          estimate_text_width(lines[k], font_size) <= available_factor * node_diameter
    /\ total_height(lines, font_size) <= available_factor * node_diameter

can_fit_with_wrapping_heightOnly(text, font_size, node_diameter) ==
    LET lines == wrap_text_to_fit_diameter(text, font_size, node_diameter)
    IN  [can_fit |-> total_height(lines, font_size) <= available_factor * node_diameter,
         lines |-> lines]

can_fit_with_wrapping(text, font_size, node_diameter) ==
    LET lines == wrap_text_to_fit_diameter(text, font_size, node_diameter)
    IN  [can_fit |-> LinesFit(lines, font_size, node_diameter), lines |-> lines]

----------------------------------------------------------------------------
(* Font-fit solver *)

Max(a, b) == IF a >= b THEN a ELSE b

Min(a, b) == IF a <= b THEN a ELSE b

\* one iteration of the while loop; st = [left, right, optimal_size]
calculate_step_keepLeft(st, text, node_diameter) ==
    LET mid == (st.left + st.right) \div 2
    IN  IF can_fit_with_wrapping(text, mid, node_diameter).can_fit
        THEN [left |-> mid + SearchStep, right |-> st.right, optimal_size |-> mid + SearchStep]
        ELSE [left |-> st.left, right |-> mid - SearchStep, optimal_size |-> st.optimal_size]

calculate_step_quarterStep(st, text, node_diameter) ==
    LET mid == (st.left + st.right) \div 2
    IN  IF can_fit_with_wrapping(text, mid, node_diameter).can_fit
        THEN [left |-> mid + SearchStep \div 2, right |-> st.right, optimal_size |-> mid]
        ELSE [left |-> st.left, right |-> mid - SearchStep, optimal_size |-> st.optimal_size]

calculate_step(st, text, node_diameter) ==
    LET mid == (st.left + st.right) \div 2
    IN  IF can_fit_with_wrapping(text, mid, node_diameter).can_fit
        THEN [left |-> mid + SearchStep, right |-> st.right, optimal_size |-> mid]
        ELSE [left |-> st.left, right |-> mid - SearchStep, optimal_size |-> st.optimal_size]

RECURSIVE calculate_loop(_, _, _)
calculate_loop(st, text, node_diameter) ==
    IF st.left <= st.right
    THEN calculate_loop(calculate_step(st, text, node_diameter), text, node_diameter)
    ELSE st

calculate_optimal_font_size(text, node_diameter, min_fs, max_fs) ==
    Max(calculate_loop([left |-> min_fs, right |-> max_fs, optimal_size |-> min_fs],
                       text, node_diameter).optimal_size,
        min_fs)

lines_at_unwrapped(text_content, font_size, node_diameter) == <<text_content>>

\* the line list a label gets at its final font size
lines_at(text_content, font_size, node_diameter) ==
    IF estimate_text_width(text_content, font_size) > Hundred * node_diameter
    THEN wrap_text_to_fit_diameter(text_content, font_size, node_diameter)
    ELSE <<text_content>>

----------------------------------------------------------------------------
(* Bounds and input sets *)

MaxLen == 5

MaxQuarter == 18

MaxDiameter == 10

TextsUpTo(n) == UNION {[1..k -> Chars] : k \in 0..n}

Texts == TextsUpTo(MaxLen)

\* a text with the word lengths of "Node Label Text"
NodeLabelText ==
    <<"A","a","a","a"," ","A","a","a","a","a"," ","A","a","a","a">>

SampleSizes == {k * (Scale \div 4) : k \in 1..MaxQuarter}

Diameters == {Pt(0), Pt(4), Pt(MaxDiameter)}

SolveMins == {HalfPt(1), Pt(1), Pt(2)}

SolveMaxs == {Pt(1), HalfPt(5), Pt(6)}

IdleFit == [pc |-> "idle"]

IdleSolve == [pc |-> "idle"]

DocIdle ==
    /\ pc = "idle"
    /\ has_groups = FALSE
    /\ circles = <<>>
    /\ auto_font_size = FALSE
    /\ min_font_size = None
    /\ max_font_size = None
    /\ node_map = <<>>
    /\ labels0 = <<>>
    /\ labels = <<>>
    /\ max_node_diameter = 0
    /\ actual_max_font_size = None
    /\ achievable_font_size = None
    /\ idx = 0
    /\ computed = <<>>
    /\ modified_count = 0
    /\ ret = None

----------------------------------------------------------------------------
(* A single call of can_fit_with_wrapping *)

InitFit ==
    /\ \E text \in Texts, font_size \in SampleSizes, node_diameter \in Diameters :
          fitCall = [pc |-> "call", text |-> text, font_size |-> font_size,
                     node_diameter |-> node_diameter]
    /\ solve = IdleSolve
    /\ DocIdle

CanFitCall ==
    /\ fitCall.pc = "call"
    /\ LET r == can_fit_with_wrapping(fitCall.text, fitCall.font_size, fitCall.node_diameter)
       IN  fitCall' = [pc |-> "done", text |-> fitCall.text, font_size |-> fitCall.font_size,
                       node_diameter |-> fitCall.node_diameter,
                       can_fit |-> r.can_fit, lines |-> r.lines]
    /\ UNCHANGED <<solve, docVars>>

NextFit == CanFitCall

SpecFit == InitFit /\ [][NextFit]_vars

----------------------------------------------------------------------------
(* A single call of calculate_optimal_font_size *)

SolveInputs ==
    {[text |-> t, node_diameter |-> d, min_font_size |-> lo, max_font_size |-> hi] :
        t \in Texts, d \in Diameters, lo \in SolveMins, hi \in SolveMaxs}
    \cup {[text |-> NodeLabelText, node_diameter |-> Pt(50),
           min_font_size |-> Pt(4), max_font_size |-> Pt(100)]}

InitSolve ==
    /\ \E in \in SolveInputs :
          solve = [pc |-> "loop", text |-> in.text, node_diameter |-> in.node_diameter,
                   min_font_size |-> in.min_font_size, max_font_size |-> in.max_font_size,
                   left |-> in.min_font_size, right |-> in.max_font_size,
                   optimal_size |-> in.min_font_size, iterations |-> 0,
                   result |-> None, lines |-> <<>>]
    /\ fitCall = IdleFit
    /\ DocIdle

\* while left <= right: one iteration
SolveIterate ==
    /\ solve.pc = "loop"
    /\ solve.left <= solve.right
    /\ LET st == calculate_step([left |-> solve.left, right |-> solve.right,
                                 optimal_size |-> solve.optimal_size],
                                solve.text, solve.node_diameter)
       IN  solve' = [solve EXCEPT !.left = st.left, !.right = st.right,
                                  !.optimal_size = st.optimal_size,
                                  !.iterations = @ + 1]
    /\ UNCHANGED <<fitCall, docVars>>

\* return max(optimal_size, min_font_size); the caller wraps at the result
SolveReturn ==
    /\ solve.pc = "loop"
    /\ solve.left > solve.right
    /\ LET r == Max(solve.optimal_size, solve.min_font_size)
       IN  solve' = [solve EXCEPT !.pc = "done", !.result = r,
                                  !.lines = lines_at(solve.text, r, solve.node_diameter)]
    /\ UNCHANGED <<fitCall, docVars>>

NextSolve == SolveIterate \/ SolveReturn

SpecSolve == InitSolve /\ [][NextSolve]_vars

\* the loop is synchronous, single-threaded code: an enabled step is taken
SpecSolveFair == SpecSolve /\ WF_vars(NextSolve)

\* every midpoint the solver computes is a whole number of units
MidExact == solve.pc = "loop" => (solve.left + solve.right) % 2 = 0

----------------------------------------------------------------------------
(* adjust_node_labels_in_tree *)

\* int(x) of a non-negative float
int(x) == (x \div Scale) * Scale

\* float(text_elem.get('font-size', '12'))
font_size_of(label) ==
    IF label.font_size = None THEN DefaultFontSizeAttr ELSE label.font_size

\* node_map after the loop over the circles (a later circle of the same class wins)
RECURSIVE BuildNodeMap(_, _, _)
BuildNodeMap(cs, i, m) ==
    IF i > Len(cs) THEN m
    ELSE BuildNodeMap(cs, i + 1,
            [c \in DOMAIN m \cup {cs[i].class} |->
                IF c = cs[i].class THEN cs[i].r * 2 ELSE m[c]])

RECURSIVE MaxDiameterOf(_, _, _)
MaxDiameterOf(cs, i, m) ==
    IF i > Len(cs) THEN m ELSE MaxDiameterOf(cs, i + 1, Max(m, cs[i].r * 2))

Abs(x) == IF x < 0 THEN 0 - x ELSE x

\* the label of a node whose diameter is within 0.01 of the largest
IsMaxNodeLabel(label, nmap, maxd) ==
    /\ label.class \in DOMAIN nmap
    /\ Hundred * Abs(nmap[label.class] - maxd) < Scale

\* max_node_text after the first loop over the labels: the stripped text of the
\* first label of a largest node that has text, else empty or None
RECURSIVE MaxNodeText(_, _, _, _, _)
MaxNodeText(ls, i, nmap, maxd, found) ==
    IF i > Len(ls) THEN found
    ELSE IF IsMaxNodeLabel(ls[i], nmap, maxd)
         THEN IF strip(ls[i].text) # <<>> THEN strip(ls[i].text)
              ELSE MaxNodeText(ls, i + 1, nmap, maxd, <<>>)
         ELSE MaxNodeText(ls, i + 1, nmap, maxd, found)

calc_min_font_size(min_fs) == IF min_fs # None THEN int(min_fs) ELSE DefaultMinFontSize

calc_max_font_size_noCeiling(actual_max) == DefaultMaxFontSize

calc_max_font_size(actual_max) ==
    IF actual_max # None THEN int(actual_max) ELSE DefaultMaxFontSize

RECURSIVE MinOptimal(_, _, _, _, _)
\* min(optimal_sizes) over the lines from index k on
MinOptimal(lines, k, node_diameter, cmin, cmax) ==
    LET o == calculate_optimal_font_size(lines[k], node_diameter, cmin, cmax)
    IN  IF k = Len(lines) THEN o
        ELSE Min(o, MinOptimal(lines, k + 1, node_diameter, cmin, cmax))

\* optimal_font_size of one label
optimal_font_size(text_content, font_size, node_diameter, cmin, cmax) ==
    LET lines_initial == lines_at(text_content, font_size, node_diameter)
    IN  IF Len(lines_initial) > 1
        THEN MinOptimal(lines_initial, 1, node_diameter, cmin, cmax)
        ELSE calculate_optimal_font_size(text_content, node_diameter, cmin, cmax)

new_font_size_always(auto, text_content, font_size, node_diameter, cmin, cmax) ==
    optimal_font_size(text_content, font_size, node_diameter, cmin, cmax)

\* font_size after the first step of the loop body
new_font_size(auto, text_content, font_size, node_diameter, cmin, cmax) ==
    IF auto
    THEN optimal_font_size(text_content, font_size, node_diameter, cmin, cmax)
    ELSE font_size

DocTexts ==
    { <<>>, <<" ">>, <<"a">>, <<" ", "a", "A">>,
      <<"a", "a", " ", "a", "a">>, <<"a", " ", " ", "A", " ", "a">> }

DocFontSizes == {None, Pt(2)}

DocRadii == {0, Pt(2), Pt(MaxDiameter) \div 2}

DocClasses == { <<"n1", "n2">>, <<"n2", "x">>, <<"n1", "n1">> }

DocOptions ==
    {[auto |-> FALSE, min |-> None, max |-> None]}
    \cup {[auto |-> TRUE, min |-> lo, max |-> hi] :
            lo \in {None, Pt(2), HalfPt(5)}, hi \in {None, Pt(3), Pt(8)}}

NotProcessed == [processed |-> FALSE]

InitDoc ==
    /\ fitCall = IdleFit
    /\ solve = IdleSolve
    /\ pc = "start"
    /\ has_groups \in BOOLEAN
    /\ \E r1 \in DocRadii, r2 \in DocRadii :
          circles = <<[class |-> "n1", r |-> r1], [class |-> "n2", r |-> r2]>>
    /\ \E o \in DocOptions :
          /\ auto_font_size = o.auto
          /\ min_font_size = o.min
          /\ max_font_size = o.max
    /\ \E cl \in DocClasses, t1 \in DocTexts, t2 \in DocTexts,
          f1 \in DocFontSizes, f2 \in DocFontSizes :
          labels0 = <<[class |-> cl[1], text |-> t1, font_size |-> f1, tspans |-> <<>>],
                      [class |-> cl[2], text |-> t2, font_size |-> f2, tspans |-> <<>>]>>
    /\ labels = labels0
    /\ node_map = <<>>
    /\ max_node_diameter = 0
    /\ actual_max_font_size = None
    /\ achievable_font_size = None
    /\ idx = 0
    /\ computed = [i \in 1..Len(labels0) |-> NotProcessed]
    /\ modified_count = 0
    /\ ret = None

docInputs == <<has_groups, circles, auto_font_size, min_font_size, max_font_size, labels0>>

\* a group is missing: return 0
ReturnNoGroups ==
    /\ pc = "start"
    /\ ~has_groups
    /\ pc' = "done"
    /\ ret' = 0
    /\ UNCHANGED <<fitCall, solve, docInputs, labels, node_map, max_node_diameter,
                   actual_max_font_size, achievable_font_size, idx, computed,
                   modified_count>>

\* the loop over the circles
MapNodes ==
    /\ pc = "start"
    /\ has_groups
    /\ node_map' = BuildNodeMap(circles, 1, <<>>)
    /\ max_node_diameter' = MaxDiameterOf(circles, 1, 0)
    /\ actual_max_font_size' = max_font_size
    /\ pc' = "prepass"
    /\ UNCHANGED <<fitCall, solve, docInputs, labels, achievable_font_size, idx,
                   computed, modified_count, ret>>

PrePassApplies ==
    auto_font_size /\ max_font_size # None /\ max_node_diameter > 0

\* first phase: the font size the largest node can reach becomes the ceiling
PrePassCeiling ==
    /\ pc = "prepass"
    /\ PrePassApplies
    /\ LET max_node_text == MaxNodeText(labels, 1, node_map, max_node_diameter, <<>>)
           cmin == IF min_font_size # None THEN min_font_size ELSE DefaultMinFontSize
       IN  IF max_node_text # <<>>
           THEN /\ achievable_font_size' =
                       calculate_optimal_font_size(max_node_text, max_node_diameter,
                                                   cmin, max_font_size)
                /\ actual_max_font_size' = achievable_font_size'
           ELSE UNCHANGED <<achievable_font_size, actual_max_font_size>>
    /\ pc' = "labels"
    /\ idx' = 1
    /\ UNCHANGED <<fitCall, solve, docInputs, labels, node_map, max_node_diameter,
                   computed, modified_count, ret>>

PrePassSkipped ==
    /\ pc = "prepass"
    /\ ~PrePassApplies
    /\ pc' = "labels"
    /\ idx' = 1
    /\ UNCHANGED <<fitCall, solve, docInputs, labels, node_map, max_node_diameter,
                   actual_max_font_size, achievable_font_size, computed,
                   modified_count, ret>>

LabelIsProcessed(label) ==
    label.class \in DOMAIN node_map /\ strip(label.text) # <<>>

\* a label without a node, or without text: continue
SkipLabel ==
    /\ pc = "labels"
    /\ idx <= Len(labels)
    /\ ~LabelIsProcessed(labels[idx])
    /\ idx' = idx + 1
    /\ UNCHANGED <<fitCall, solve, docInputs, pc, labels, node_map, max_node_diameter,
                   actual_max_font_size, achievable_font_size, computed,
                   modified_count, ret>>

\* the body of the main loop for one label
AdjustLabel ==
    /\ pc = "labels"
    /\ idx <= Len(labels)
    /\ LabelIsProcessed(labels[idx])
    /\ LET label == labels[idx]
           text_content == capitalize(strip(label.text))
           font_size == font_size_of(label)
           node_diameter == node_map[label.class]
           cmin == calc_min_font_size(min_font_size)
           cmax == calc_max_font_size(actual_max_font_size)
           final_size == new_font_size(auto_font_size, text_content, font_size,
                                       node_diameter, cmin, cmax)
           resized == final_size # font_size
           lines_to_use == lines_at(text_content, final_size, node_diameter)
           wrapped == Len(lines_to_use) > 1
       IN  /\ labels' = [labels EXCEPT ![idx] =
                  [class |-> label.class,
                   text |-> IF wrapped THEN <<>> ELSE text_content,
                   font_size |-> IF resized THEN final_size ELSE label.font_size,
                   tspans |-> IF wrapped THEN label.tspans \o lines_to_use
                                         ELSE label.tspans]]
           /\ computed' = [computed EXCEPT ![idx] =
                  [processed |-> TRUE, font_size |-> final_size, calc_min |-> cmin,
                   node_diameter |-> node_diameter, lines |-> lines_to_use]]
           /\ modified_count' =
                  IF resized \/ (wrapped /\ ~auto_font_size)
                  THEN modified_count + 1 ELSE modified_count
    /\ idx' = idx + 1
    /\ UNCHANGED <<fitCall, solve, docInputs, pc, node_map, max_node_diameter,
                   actual_max_font_size, achievable_font_size, ret>>

\* return modified_count
ReturnCount ==
    /\ pc = "labels"
    /\ idx > Len(labels)
    /\ pc' = "done"
    /\ ret' = modified_count
    /\ UNCHANGED <<fitCall, solve, docInputs, labels, node_map, max_node_diameter,
                   actual_max_font_size, achievable_font_size, idx, computed,
                   modified_count>>

Next ==
    \/ ReturnNoGroups
    \/ MapNodes
    \/ PrePassCeiling
    \/ PrePassSkipped
    \/ SkipLabel
    \/ AdjustLabel
    \/ ReturnCount

Spec == InitDoc /\ [][Next]_vars

----------------------------------------------------------------------------
(* Properties of the solver and of the measurement model *)

InRange(s, lo, hi) == lo <= s /\ s <= hi

Fits(text, s, d) == can_fit_with_wrapping(text, s, d).can_fit

HasWord(text) == split(text) # <<>>

\* C1: for min <= max (and any text, any diameter >= 0) the size returned by
\* calculate_optimal_font_size is >= min and <= max.
C1_BoundsRespected ==
    (solve.pc = "done" /\ solve.min_font_size <= solve.max_font_size)
        => InRange(solve.result, solve.min_font_size, solve.max_font_size)

C1_Witness ==
    /\ solve.pc = "done"
    /\ solve.min_font_size < solve.result
    /\ solve.result < solve.max_font_size

\* C2: for fixed text and diameter, can_fit_with_wrapping true at a size S
\* implies it is true at every smaller size S' > 0 (stated on the texts the
\* document pass supplies, which carry no leading or trailing whitespace).
C2_Monotone ==
    (fitCall.pc = "done" /\ fitCall.can_fit /\ strip(fitCall.text) = fitCall.text)
        => \A s \in SampleSizes :
              s < fitCall.font_size => Fits(fitCall.text, s, fitCall.node_diameter)

\* C3: the returned size s is a tight upper bound: it fits at s and not at
\* s + 0.5 (whenever s + 0.5 <= max), or nothing in [min, max] fits and s = min.
C3_TightUpperBound ==
    (solve.pc = "done" /\ solve.min_font_size <= solve.max_font_size)
        => LET s == solve.result
               t == solve.text
               d == solve.node_diameter
           IN  \/ /\ Fits(t, s, d)
                  /\ (s + SearchStep <= solve.max_font_size) => ~Fits(t, s + SearchStep, d)
               \/ /\ s = solve.min_font_size
                  /\ \A g \in SampleSizes :
                        InRange(g, solve.min_font_size, solve.max_font_size) => ~Fits(t, g, d)

ZeroDiameterCase ==
    /\ solve.pc = "done"
    /\ solve.node_diameter = 0
    /\ HasWord(solve.text)
    /\ solve.min_font_size > 0

ZeroDiameterInfeasible ==
    /\ \A g \in SampleSizes \cup {solve.min_font_size, solve.max_font_size} :
          InRange(g, solve.min_font_size, solve.max_font_size)
              => ~Fits(solve.text, g, solve.node_diameter)
    /\ solve.result = solve.min_font_size

\* C8 as stated: at diameter 0 nothing fits, the solver returns min and the
\* label's lines at that size are the full text as exactly one line (stated on
\* the texts the document pass supplies, without surrounding whitespace).
C8_ZeroDiameterSingleLine ==
    (ZeroDiameterCase /\ strip(solve.text) = solve.text
        /\ solve.min_font_size <= solve.max_font_size) => (ZeroDiameterInfeasible /\ solve.lines = <<solve.text>>)

\* C8: at diameter 0, for a text with at least one word and min > 0, nothing
\* in [min, max] fits, the solver returns min, and the label's lines at that
\* size are the words of the text, one word per line.
C8_ZeroDiameterWordPerLine ==
    ZeroDiameterCase => (ZeroDiameterInfeasible /\ solve.lines = split(solve.text))

C8_Witness ==
    /\ ZeroDiameterCase
    /\ Len(split(solve.text)) >= 2
    /\ Len(solve.lines) >= 2

WrapCase == fitCall.pc = "done" /\ HasWord(fitCall.text) /\ fitCall.font_size > 0

\* C9 as stated: the lines of the wrap joined by single spaces are exactly the
\* words of the text joined by single spaces.
C9_JoinIsWordsJoined ==
    WrapCase => join(fitCall.lines) = join(split(fitCall.text))

\* C9: the lines of the wrap joined by single spaces have exactly the word
\* sequence of the text (nothing dropped, duplicated, reordered or split);
\* when the text is wider than the line width the join is exactly the words
\* joined by single spaces, otherwise the single line is the text itself.
C9_WordSequencePreserved ==
    WrapCase =>
        /\ split(join(fitCall.lines)) = split(fitCall.text)
        /\ IF estimate_text_width(fitCall.text, fitCall.font_size)
                  > Hundred * fitCall.node_diameter
           THEN join(fitCall.lines) = join(split(fitCall.text))
           ELSE fitCall.lines = <<fitCall.text>>

C9_Witness ==
    /\ WrapCase
    /\ Len(fitCall.lines) >= 2
    /\ \E k \in 1..Len(fitCall.lines) : Len(split(fitCall.lines[k])) >= 2

----------------------------------------------------------------------------
(* Properties of adjust_node_labels_in_tree *)

Processed == {i \in 1..Len(computed) : computed[i].processed}

Finished == pc = "done" /\ has_groups

\* C4: with auto-fit, the lines written for a processed label whose final font
\* size is above the minimum used do not overflow the circle: every line is
\* at most 0.95 * diameter wide and the block at most 0.95 * diameter high.
C4_NoOverflowAboveMin ==
    (Finished /\ auto_font_size) =>
        \A i \in Processed :
            computed[i].font_size > computed[i].calc_min
                => LinesFit(computed[i].lines, computed[i].font_size,
                            computed[i].node_diameter)

CeilingCase ==
    /\ Finished
    /\ auto_font_size
    /\ max_font_size # None
    /\ achievable_font_size # None

\* C5: with auto-fit, a caller max and a largest node that has text, no label's
\* computed font size exceeds the size the pre-pass computed for that node.
C5_CeilingConsistency ==
    CeilingCase => \A i \in Processed : computed[i].font_size <= achievable_font_size

C5_Witness ==
    /\ CeilingCase
    /\ achievable_font_size < max_font_size
    /\ \E i \in Processed :
          /\ computed[i].font_size = int(achievable_font_size)
          /\ computed[i].font_size > computed[i].calc_min
          \* the ceiling is what held this label back
          /\ optimal_font_size(capitalize(strip(labels0[i].text)),
                               font_size_of(labels0[i]), computed[i].node_diameter,
                               computed[i].calc_min, int(max_font_size))
                 > computed[i].font_size

\* C6: with auto-fit and caller min <= max, every font size written onto a
\* label is >= the caller's min and <= the caller's max.
C6_WrittenSizeInCallerRange ==
    (Finished /\ auto_font_size /\ min_font_size # None /\ max_font_size # None
        /\ min_font_size <= max_font_size) =>
        \A i \in 1..Len(labels) :
            labels[i].font_size # labels0[i].font_size
                => InRange(labels[i].font_size, min_font_size, max_font_size)

Modified(i) ==
    \/ labels[i].font_size # labels0[i].font_size
    \/ labels[i].tspans # labels0[i].tspans

\* C10: the count returned is the number of labels modified (font-size
\* attribute changed or text replaced by line sub-runs), each counted once.
C10_CountIsModifiedLabels ==
    pc = "done" => ret = Cardinality({i \in 1..Len(labels) : Modified(i)})

----------------------------------------------------------------------------
(* Termination of the search; the single over-wide word *)

\* one loop iteration leaves right - left at most half its width minus 0.5
IterationShrinks ==
    (solve.pc = "loop" /\ solve'.pc = "loop" /\ solve'.iterations # solve.iterations)
        => 2 * (solve'.right - solve'.left) <= (solve.right - solve.left) - Scale

\* the k-th iteration ran on an interval of width >= 0, so
\* 2^(k-1) <= (max - min) + 1: the count depends on max - min alone
IterationBound ==
    (solve.pc \in {"loop", "done"} /\ solve.iterations >= 1)
        => 2^(solve.iterations - 1) * Scale
              <= (solve.max_font_size - solve.min_font_size) + Scale

\* C11: the binary search of calculate_optimal_font_size terminates: every
\* iteration shrinks right - left to at most half its width minus 0.5, the
\* number of iterations is bounded by a function of max - min alone, and the
\* loop is eventually left.
C11_SearchTerminates ==
    /\ [][IterationShrinks]_vars
    /\ [](IterationBound)
    /\ <>(solve.pc = "done")

C11_Witness ==
    /\ solve.pc = "done"
    /\ solve.min_font_size <= solve.max_font_size
    /\ solve.iterations >= 3
    /\ 2^solve.iterations * Scale > (solve.max_font_size - solve.min_font_size) + Scale

OverWideWordCase ==
    /\ solve.pc = "done"
    /\ Len(split(solve.text)) = 1
    /\ solve.min_font_size > 0
    /\ estimate_text_width(split(solve.text)[1], solve.min_font_size)
          > Hundred * solve.node_diameter

\* C12: a single word wider than the diameter at every size >= min gets
\* exactly min, and its wrap at that size is exactly one line, the whole word.
C12_OverWideWordAtMin ==
    OverWideWordCase =>
        /\ solve.result = solve.min_font_size
        /\ solve.lines = <<split(solve.text)[1]>>
        /\ wrap_text_to_fit_diameter(solve.text, solve.result, solve.node_diameter)
              = <<split(solve.text)[1]>>

C12_Witness ==
    /\ OverWideWordCase
    /\ solve.node_diameter > 0
    /\ solve.min_font_size < solve.max_font_size
    /\ solve.iterations >= 2
    /\ Len(split(solve.text)[1]) >= 2
    /\ solve.lines = <<solve.text>>

====
